---- MODULE Spec2Model ----
(***************************************************************************)
(* Model of src/video.py: a Streamlit script that is re-executed from top  *)
(* to bottom on every user interaction.  One script run is: input handling *)
(* for the selected option (lines 72-210), the Analyze button handler      *)
(* (lines 222-257) and the Clear button handler (lines 260-264).           *)
(* st.session_state (video_paths, current_input, last_uploaded_name) and   *)
(* the widget values survive from one run to the next.                     *)
(***************************************************************************)
EXTENDS Integers, Sequences, FiniteSets, TLC

\* ------------------------------------------------------------------ bounds
\* Number of videos a playlist holds.
MaxPlaylist == 2
\* The poll counter saturates here (the loop itself has no limit).
MaxPolls == 2

\* ------------------------------------------------------- program constants
\* line 118 / 198: a downloaded file must be larger than this many bytes.
MinSize == 10000

\* --------------------------------------------------------------- universes
NoneVal == "None"
Urls == {"u1", "u2"}
\* An uploaded file: the name the browser reports and its content.
Files == {[name |-> "a", data |-> 1], [name |-> "a", data |-> 2],
          [name |-> "b", data |-> 1]}
NoFile == [name |-> "", data |-> 0]
\* Text typed in the query box, as a sequence of characters.
Queries == {<< >>, <<" ">>, <<"q">>}
Sizes == {0, MinSize, MinSize + 1}
States == {"PROCESSING", "ACTIVE", "FAILED"}

OptUpload == "Upload Video"
OptYouTube == "Provide YouTube Link"
OptPlaylist == "Provide YouTube Playlist Link"
OptDirect == "Provide direct video URL (.mp4)"
Options == {OptUpload, OptYouTube, OptPlaylist, OptDirect}

\* A local file path.  Every download goes to a fresh temporary directory,
\* so a path is identified by what was stored in it: the option and input
\* it came from and, for a playlist, the position of the video.
TempFile(f) == [src |-> OptUpload, name |-> f.name, data |-> f.data, k |-> 1]
YouTubeFile(url) == [src |-> OptYouTube, name |-> url, data |-> 0, k |-> 1]
PlaylistFile(url, n) == [src |-> OptPlaylist, name |-> url, data |-> 0, k |-> n]
DirectFile(url) == [src |-> OptDirect, name |-> url, data |-> 0, k |-> 1]

NoDl == [call |-> "none", result |-> "none", files |-> {}]
NoPath == [src |-> "", name |-> "", data |-> 0, k |-> 0]
NoUpload == [path |-> NoPath, state |-> "none"]

VARIABLES
  \* widgets
  video_option, video_file, youtube_url, playlist_url, direct_url,
  user_query, button,
  \* st.session_state
  video_paths, current_input, last_uploaded_name,
  \* the local file system: the paths that exist.  Only files that
  \* video_paths refers to are ever read again, so the others are forgotten
  \* whenever video_paths is assigned.
  fs,
  \* position in the script
  pc,
  \* what the current run has done so far
  ui, dl, wrote, played, escaped,
  \* the analysis of the current run
  processed_videos, idx, uploaded, polls, uploads, inflight, skipped,
  agentCalls, agentVideos, anFail,
  \* TRUE from a Clear click until the user changes an input widget
  cleared

widgets == <<video_option, video_file, youtube_url, playlist_url, direct_url,
             user_query, button>>
session == <<video_paths, current_input, last_uploaded_name>>
runlog == <<ui, dl, wrote, played, escaped>>
analysis == <<processed_videos, idx, uploaded, polls, uploads, inflight,
              skipped, agentCalls, agentVideos, anFail>>
vars == <<widgets, session, fs, pc, runlog, analysis, cleared>>

Range(s) == {s[i] : i \in 1..Len(s)}

\* ------------------------------------------------------------------- Init
\* lines 39-44: the session state of a fresh session; no run is in progress.
Init ==
  /\ video_option = OptUpload
  /\ video_file = NoFile
  /\ youtube_url = ""
  /\ playlist_url = ""
  /\ direct_url = ""
  /\ user_query = << >>
  /\ button = "none"
  /\ video_paths = << >>
  /\ current_input = NoneVal
  /\ last_uploaded_name = NoneVal
  /\ fs = {}
  /\ pc = "idle"
  /\ ui = {}
  /\ dl = NoDl
  /\ wrote = FALSE
  /\ played = {}
  /\ escaped = FALSE
  /\ processed_videos = << >>
  /\ idx = 0
  /\ uploaded = NoUpload
  /\ polls = 0
  /\ uploads = << >>
  /\ inflight = {}
  /\ skipped = {}
  /\ agentCalls = 0
  /\ agentVideos = << >>
  /\ anFail = "none"
  /\ cleared = FALSE

\* A script run starts with nothing rendered and no local variable set.
StartRun ==
  /\ pc' = "input"
  /\ ui' = {}
  /\ dl' = NoDl
  /\ wrote' = FALSE
  /\ played' = {}
  /\ escaped' = FALSE
  /\ processed_videos' = << >>
  /\ idx' = 0
  /\ uploaded' = NoUpload
  /\ polls' = 0
  /\ uploads' = << >>
  /\ inflight' = {}
  /\ skipped' = {}
  /\ agentCalls' = 0
  /\ agentVideos' = << >>
  /\ anFail' = "none"

\* ----------------------------------------------------------- user events
\* Each interaction changes one widget and re-executes the script.  A widget
\* that is not rendered in a run loses its value, so the inputs of the other
\* options are blank after a change of option.

\* lines 58-66
SelectOption(o) ==
  /\ pc = "idle"
  /\ o # video_option
  /\ video_option' = o
  /\ video_file' = NoFile
  /\ youtube_url' = ""
  /\ playlist_url' = ""
  /\ direct_url' = ""
  /\ button' = "none"
  /\ cleared' = FALSE
  /\ StartRun
  /\ UNCHANGED <<user_query, session, fs>>

\* lines 73-77
ChooseFile(f) ==
  /\ pc = "idle"
  /\ video_option = OptUpload
  /\ f # video_file
  /\ video_file' = f
  /\ button' = "none"
  /\ cleared' = FALSE
  /\ StartRun
  /\ UNCHANGED <<video_option, youtube_url, playlist_url, direct_url,
                 user_query, session, fs>>

\* lines 91-95, 134-138, 175-179
EnterUrl(u) ==
  /\ pc = "idle"
  /\ \/ /\ video_option = OptYouTube
        /\ u # youtube_url
        /\ youtube_url' = u
        /\ UNCHANGED <<playlist_url, direct_url>>
     \/ /\ video_option = OptPlaylist
        /\ u # playlist_url
        /\ playlist_url' = u
        /\ UNCHANGED <<youtube_url, direct_url>>
     \/ /\ video_option = OptDirect
        /\ u # direct_url
        /\ direct_url' = u
        /\ UNCHANGED <<youtube_url, playlist_url>>
  /\ button' = "none"
  /\ cleared' = FALSE
  /\ StartRun
  /\ UNCHANGED <<video_option, video_file, user_query, session, fs>>

\* lines 216-220
EnterQuery(q) ==
  /\ pc = "idle"
  /\ q # user_query
  /\ user_query' = q
  /\ button' = "none"
  /\ StartRun
  /\ UNCHANGED <<video_option, video_file, youtube_url, playlist_url,
                 direct_url, session, fs, cleared>>

\* line 222 / line 260: a click re-executes the script with the button set.
Click(b) ==
  /\ pc = "idle"
  /\ button' = b
  /\ StartRun
  /\ UNCHANGED <<video_option, video_file, youtube_url, playlist_url,
                 direct_url, user_query, session, fs, cleared>>

\* The environment: a temporary file the session refers to is removed
\* (the script tests Path(...).exists() because this can happen).
DeleteFile(p) ==
  /\ p \in fs
  /\ fs' = fs \ {p}
  /\ UNCHANGED <<widgets, session, pc, runlog, analysis, cleared>>

\* Variant: the poll call sits outside the try block.
Handler_PollUncaught(site) ==
  CASE site = "ydl_single" -> "Download failed"
    [] site = "requests_get" -> "Download failed"
    [] site = "ydl_playlist" -> "Playlist download failed"
    [] site \in {"upload_file", "agent_run"} ->
         "An error occurred during analysis"
    [] OTHER -> "uncaught"

\* ------------------------------------------------------ exception handling
\* The except clause that receives an exception raised at a call site:
\* lines 103-127 (YouTube), 144-167 (playlist), 186-207 (direct URL) and
\* 228-257 (analysis) enclose the calls named here.
Handler(site) ==
  CASE site = "ydl_single" -> "Download failed"
    [] site = "requests_get" -> "Download failed"
    [] site = "ydl_playlist" -> "Playlist download failed"
    [] site \in {"upload_file", "get_file", "agent_run"} ->
         "An error occurred during analysis"
    [] OTHER -> "uncaught"

\* st.video(path): the path handed to the player and whether it existed.
Shown(p, files) == [path |-> p, existed |-> p \in files]

\* line 157: list(Path(temp_dir).glob('*.mp4')).  The order is the
\* directory's; nothing in the script depends on it, and the model lists the
\* files by their position in the playlist.
Listing(S) ==
  CHOOSE s \in [1..Cardinality(S) -> S] :
    \A i, j \in 1..Cardinality(S) : i < j => s[i].k < s[j].k

\* -------------------------------------------------------- input handling
\* lines 80-81: only re-process if it is a new file
NewUpload(f) ==
  last_uploaded_name # f.name \/ video_paths = << >>

\* lines 72-88
UploadBranch ==
  /\ pc = "input"
  /\ video_option = OptUpload
  /\ IF video_file # NoFile
       THEN /\ IF NewUpload(video_file)
                 THEN /\ video_paths' = <<TempFile(video_file)>>
                      /\ last_uploaded_name' = video_file.name
                      /\ fs' = {TempFile(video_file)}
                      /\ wrote' = TRUE
                      /\ ui' = ui \cup {"Video uploaded successfully!"}
                 ELSE UNCHANGED <<video_paths, last_uploaded_name, fs, wrote, ui>>
            /\ played' = IF video_paths' # << >>
                           THEN {Shown(video_paths'[1], fs')}
                           ELSE {}
       ELSE UNCHANGED <<video_paths, last_uploaded_name, fs, wrote, ui, played>>
  /\ pc' = "buttons"
  /\ UNCHANGED <<widgets, current_input, dl, escaped, analysis, cleared>>

\* Variant: the cache is ignored and every run downloads again.
NeedsDownload_Always(url) == TRUE

\* lines 98-100 and 181-183: download only if the URL changed or no valid
\* file exists
NeedsDownload(url) ==
  \/ current_input # url
  \/ video_paths = << >>
  \/ video_paths[1] \notin fs

\* lines 118 and 198
ValidFile(exists, size) == exists /\ size > MinSize

\* lines 90-131
YouTubeBranch ==
  /\ pc = "input"
  /\ video_option = OptYouTube
  /\ IF youtube_url # "" /\ NeedsDownload(youtube_url)
       THEN \E raised \in BOOLEAN, exists \in BOOLEAN, size \in Sizes :
              IF raised
                THEN IF Handler("ydl_single") = "uncaught"
                       THEN /\ escaped' = TRUE
                            /\ pc' = "idle"
                            /\ dl' = [call |-> "yt", result |-> "raise", files |-> {}]
                            /\ UNCHANGED <<video_paths, current_input, fs, ui, played>>
                       ELSE /\ ui' = ui \cup {Handler("ydl_single")}
                            /\ video_paths' = << >>
                            /\ fs' = {}
                            /\ dl' = [call |-> "yt", result |-> "raise", files |-> {}]
                            /\ played' = {}
                            /\ pc' = "buttons"
                            /\ UNCHANGED <<current_input, escaped>>
                ELSE /\ IF ValidFile(exists, size)
                          THEN /\ video_paths' = <<YouTubeFile(youtube_url)>>
                               /\ current_input' = youtube_url
                               /\ fs' = {YouTubeFile(youtube_url)}
                               /\ ui' = ui \cup {"Video downloaded!"}
                               /\ dl' = [call |-> "yt", result |-> "ok", files |-> {1}]
                               /\ played' = {Shown(YouTubeFile(youtube_url), fs')}
                          ELSE /\ video_paths' = << >>
                               /\ fs' = {}
                               /\ ui' = ui \cup {"Downloaded file is invalid or empty."}
                               /\ dl' = [call |-> "yt", result |-> "invalid", files |-> {}]
                               /\ played' = {}
                               /\ UNCHANGED current_input
                     /\ pc' = "buttons"
                     /\ UNCHANGED escaped
       ELSE /\ played' = IF youtube_url # "" /\ video_paths # << >>
                              /\ video_paths[1] \in fs
                           THEN {Shown(video_paths[1], fs)}
                           ELSE {}
            /\ pc' = "buttons"
            /\ UNCHANGED <<video_paths, current_input, fs, ui, dl, escaped>>
  /\ UNCHANGED <<widgets, last_uploaded_name, wrote, analysis, cleared>>

\* lines 140-141
NeedsPlaylistDownload(url) ==
  \/ current_input # url
  \/ video_paths = << >>

\* lines 133-172
PlaylistBranch ==
  /\ pc = "input"
  /\ video_option = OptPlaylist
  /\ IF playlist_url # "" /\ NeedsPlaylistDownload(playlist_url)
       THEN \E raised \in BOOLEAN, got \in SUBSET (1..MaxPlaylist) :
              IF raised
                THEN IF Handler("ydl_playlist") = "uncaught"
                       THEN /\ escaped' = TRUE
                            /\ pc' = "idle"
                            /\ dl' = [call |-> "pl", result |-> "raise", files |-> got]
                            /\ UNCHANGED <<video_paths, current_input, fs, ui, played>>
                       ELSE /\ ui' = ui \cup {Handler("ydl_playlist")}
                            /\ video_paths' = << >>
                            /\ fs' = {}
                            /\ dl' = [call |-> "pl", result |-> "raise", files |-> got]
                            /\ played' = {}
                            /\ pc' = "buttons"
                            /\ UNCHANGED <<current_input, escaped>>
                ELSE /\ IF got # {}
                          THEN LET files == Listing({PlaylistFile(playlist_url, n) : n \in got}) IN
                                 /\ video_paths' = files
                                 /\ current_input' = playlist_url
                                 /\ fs' = Range(files)
                                 /\ ui' = ui \cup {"Downloaded video(s)"}
                                 /\ dl' = [call |-> "pl", result |-> "ok", files |-> got]
                                 /\ played' = {Shown(p, fs') : p \in Range(files)}
                          ELSE /\ video_paths' = << >>
                               /\ fs' = {}
                               /\ ui' = ui \cup {"No .mp4 files were downloaded."}
                               /\ dl' = [call |-> "pl", result |-> "invalid", files |-> {}]
                               /\ played' = {}
                               /\ UNCHANGED current_input
                     /\ pc' = "buttons"
                     /\ UNCHANGED escaped
       ELSE /\ played' = IF playlist_url # ""
                           THEN {Shown(p, fs) : p \in Range(video_paths) \cap fs}
                           ELSE {}
            /\ pc' = "buttons"
            /\ UNCHANGED <<video_paths, current_input, fs, ui, dl, escaped>>
  /\ UNCHANGED <<widgets, last_uploaded_name, wrote, analysis, cleared>>

\* lines 174-210
DirectBranch ==
  /\ pc = "input"
  /\ video_option = OptDirect
  /\ IF direct_url # "" /\ NeedsDownload(direct_url)
       THEN \E raised \in BOOLEAN, exists \in BOOLEAN, size \in Sizes :
              IF raised
                THEN IF Handler("requests_get") = "uncaught"
                       THEN /\ escaped' = TRUE
                            /\ pc' = "idle"
                            /\ dl' = [call |-> "direct", result |-> "raise", files |-> {}]
                            /\ UNCHANGED <<video_paths, current_input, fs, ui, played>>
                       ELSE /\ ui' = ui \cup {Handler("requests_get")}
                            /\ video_paths' = << >>
                            /\ fs' = {}
                            /\ dl' = [call |-> "direct", result |-> "raise", files |-> {}]
                            /\ played' = {}
                            /\ pc' = "buttons"
                            /\ UNCHANGED <<current_input, escaped>>
                ELSE /\ IF ValidFile(exists, size)
                          THEN /\ video_paths' = <<DirectFile(direct_url)>>
                               /\ current_input' = direct_url
                               /\ fs' = {DirectFile(direct_url)}
                               /\ ui' = ui \cup {"Video downloaded!"}
                               /\ dl' = [call |-> "direct", result |-> "ok", files |-> {1}]
                               /\ played' = {Shown(DirectFile(direct_url), fs')}
                          ELSE /\ video_paths' = << >>
                               /\ fs' = {}
                               /\ ui' = ui \cup {"Downloaded file is invalid or empty."}
                               /\ dl' = [call |-> "direct", result |-> "invalid", files |-> {}]
                               /\ played' = {}
                               /\ UNCHANGED current_input
                     /\ pc' = "buttons"
                     /\ UNCHANGED escaped
       ELSE /\ played' = IF direct_url # "" /\ video_paths # << >>
                              /\ video_paths[1] \in fs
                           THEN {Shown(video_paths[1], fs)}
                           ELSE {}
            /\ pc' = "buttons"
            /\ UNCHANGED <<video_paths, current_input, fs, ui, dl, escaped>>
  /\ UNCHANGED <<widgets, last_uploaded_name, wrote, analysis, cleared>>

\* ------------------------------------------------------------- analysis
\* Leading and trailing white space removed (str.strip, line 223).
RECURSIVE LStrip(_)
LStrip(q) ==
  IF q # << >> /\ Head(q) = " " THEN LStrip(Tail(q)) ELSE q

RECURSIVE RStrip(_)
RStrip(q) ==
  IF q # << >> /\ q[Len(q)] = " " THEN RStrip(SubSeq(q, 1, Len(q) - 1)) ELSE q

Strip(q) == RStrip(LStrip(q))

\* Variant: the query is tested without strip().
QueryBlank_NoStrip(q) == q = << >>

\* line 223
QueryBlank(q) == Strip(q) = << >>

\* lines 222-230: the guards of the Analyze button
AnalyzeButton ==
  /\ pc = "buttons"
  /\ button = "analyze"
  /\ IF QueryBlank(user_query)
       THEN /\ ui' = ui \cup {"Please enter a question or insight to analyze."}
            /\ pc' = "idle"
            /\ UNCHANGED <<idx, processed_videos>>
       ELSE IF video_paths = << >>
              THEN /\ ui' = ui \cup {"No video(s) loaded yet."}
                   /\ pc' = "idle"
                   /\ UNCHANGED <<idx, processed_videos>>
              ELSE /\ processed_videos' = << >>
                   /\ idx' = 1
                   /\ pc' = "loop"
                   /\ UNCHANGED ui
  /\ UNCHANGED <<widgets, session, fs, dl, wrote, played, escaped, uploaded,
                 polls, uploads, inflight, skipped, agentCalls, agentVideos,
                 anFail, cleared>>

\* An exception raised at a call site of the analysis (lines 228, 256-257).
Raise(site) ==
  /\ anFail' = site
  /\ inflight' = inflight \ {idx}
  /\ pc' = "idle"
  /\ IF Handler(site) = "uncaught"
       THEN escaped' = TRUE /\ UNCHANGED ui
       ELSE ui' = ui \cup {Handler(site)} /\ UNCHANGED escaped

\* Variant: break instead of continue.
AfterMissing_Break(i) == Len(video_paths) + 1

\* lines 232-234: a missing file is skipped and the loop goes on
AfterMissing(i) == i + 1

\* lines 231-234
SkipMissing ==
  /\ pc = "loop"
  /\ idx <= Len(video_paths)
  /\ video_paths[idx] \notin fs
  /\ ui' = ui \cup {"Video file no longer exists"}
  /\ skipped' = skipped \cup {idx}
  /\ idx' = AfterMissing(idx)
  /\ UNCHANGED <<widgets, session, fs, pc, dl, wrote, played, escaped,
                 processed_videos, uploaded, polls, uploads, inflight,
                 agentCalls, agentVideos, anFail, cleared>>

\* Variant: the upload is started and the loop moves on without polling it.
UploadFile_NoWait(r) ==
  /\ pc = "loop"
  /\ idx <= Len(video_paths)
  /\ video_paths[idx] \in fs
  /\ uploads' = Append(uploads, video_paths[idx])
  /\ polls' = 0
  /\ IF r = "raise"
       THEN /\ Raise("upload_file")
            /\ UNCHANGED <<uploaded, idx>>
       ELSE /\ uploaded' = [path |-> video_paths[idx], state |-> r]
            /\ inflight' = inflight \cup {idx}
            /\ idx' = idx + 1
            /\ UNCHANGED <<pc, ui, escaped, anFail>>
  /\ UNCHANGED <<widgets, session, fs, dl, wrote, played, processed_videos,
                 skipped, agentCalls, agentVideos, cleared>>

\* lines 231-235: upload_file(path) returns a handle or raises
UploadFile(r) ==
  /\ pc = "loop"
  /\ idx <= Len(video_paths)
  /\ video_paths[idx] \in fs
  /\ uploads' = Append(uploads, video_paths[idx])
  /\ polls' = 0
  /\ IF r = "raise"
       THEN /\ Raise("upload_file")
            /\ UNCHANGED uploaded
       ELSE /\ uploaded' = [path |-> video_paths[idx], state |-> r]
            /\ inflight' = inflight \cup {idx}
            /\ pc' = "poll"
            /\ UNCHANGED <<ui, escaped, anFail>>
  /\ UNCHANGED <<widgets, session, fs, dl, wrote, played, processed_videos,
                 idx, skipped, agentCalls, agentVideos, cleared>>

\* Variant: the handle is never polled.
StillProcessing_Never(u) == FALSE

\* line 236: the condition of the poll loop
StillProcessing(u) == u.state = "PROCESSING"

\* lines 236-238: sleep, then get_file(uploaded.name) returns the handle
\* with its current status or raises
GetFile(r) ==
  /\ pc = "poll"
  /\ StillProcessing(uploaded)
  /\ polls' = IF polls < MaxPolls THEN polls + 1 ELSE polls
  /\ IF r = "raise"
       THEN /\ Raise("get_file")
            /\ UNCHANGED uploaded
       ELSE /\ uploaded' = [uploaded EXCEPT !.state = r]
            /\ UNCHANGED <<pc, ui, escaped, anFail, inflight>>
  /\ UNCHANGED <<widgets, session, fs, dl, wrote, played, processed_videos,
                 idx, uploads, skipped, agentCalls, agentVideos, cleared>>

\* lines 236, 239: the poll loop ends and the handle is appended
AppendProcessed ==
  /\ pc = "poll"
  /\ ~StillProcessing(uploaded)
  /\ processed_videos' = Append(processed_videos, uploaded)
  /\ inflight' = inflight \ {idx}
  /\ uploaded' = NoUpload
  /\ idx' = idx + 1
  /\ pc' = "loop"
  /\ UNCHANGED <<widgets, session, fs, ui, dl, wrote, played, escaped, polls,
                 uploads, skipped, agentCalls, agentVideos, anFail, cleared>>

\* Variant: the loop ends without a message when nothing was uploaded.
LoopEnd_Silent ==
  /\ pc = "loop"
  /\ idx > Len(video_paths)
  /\ pc' = IF processed_videos = << >> THEN "idle" ELSE "agent"
  /\ UNCHANGED <<widgets, session, fs, runlog, analysis, cleared>>

\* lines 241-243: the for loop is over
LoopEnd ==
  /\ pc = "loop"
  /\ idx > Len(video_paths)
  /\ IF processed_videos = << >>
       THEN /\ ui' = ui \cup {"No valid videos could be uploaded for analysis."}
            /\ pc' = "idle"
       ELSE /\ pc' = "agent"
            /\ UNCHANGED ui
  /\ UNCHANGED <<widgets, session, fs, dl, wrote, played, escaped, analysis,
                 cleared>>

\* lines 244-254: multimodal_Agent.run returns a response or raises
AgentRun(ok) ==
  /\ pc = "agent"
  /\ agentCalls' = agentCalls + 1
  /\ agentVideos' = processed_videos
  /\ IF ok
       THEN /\ ui' = ui \cup {"Analysis Result"}
            /\ pc' = "idle"
            /\ UNCHANGED <<escaped, anFail, inflight>>
       ELSE Raise("agent_run")
  /\ UNCHANGED <<widgets, session, fs, dl, wrote, played, processed_videos,
                 idx, uploaded, polls, uploads, skipped, cleared>>

\* lines 260-264: reset the session state and st.rerun()
ClearButton ==
  /\ pc = "buttons"
  /\ button = "clear"
  /\ video_paths' = << >>
  /\ current_input' = NoneVal
  /\ last_uploaded_name' = NoneVal
  /\ fs' = {}
  /\ button' = "none"
  /\ cleared' = TRUE
  /\ StartRun
  /\ UNCHANGED <<video_option, video_file, youtube_url, playlist_url,
                 direct_url, user_query>>

\* lines 222, 260, 266-276: no button was clicked; the script ends
NoButton ==
  /\ pc = "buttons"
  /\ button = "none"
  /\ pc' = "idle"
  /\ UNCHANGED <<widgets, session, fs, runlog, analysis, cleared>>

\* ------------------------------------------------------------------- Next
Results == States \cup {"raise"}

Next ==
  \/ \E o \in Options : SelectOption(o)
  \/ \E f \in Files \cup {NoFile} : ChooseFile(f)
  \/ \E u \in Urls \cup {""} : EnterUrl(u)
  \/ \E q \in Queries : EnterQuery(q)
  \/ \E b \in {"none", "analyze", "clear"} : Click(b)
  \/ \E p \in fs : DeleteFile(p)
  \/ UploadBranch
  \/ YouTubeBranch
  \/ PlaylistBranch
  \/ DirectBranch
  \/ AnalyzeButton
  \/ SkipMissing
  \/ \E r \in Results : UploadFile(r)
  \/ \E r \in Results : GetFile(r)
  \/ AppendProcessed
  \/ LoopEnd
  \/ \E ok \in BOOLEAN : AgentRun(ok)
  \/ ClearButton
  \/ NoButton

Spec == Init /\ [][Next]_vars

\* Every external call returns or raises, and a status that get_file reports
\* eventually leaves PROCESSING.
StatusLeaves == \E r \in Results \ {"PROCESSING"} : GetFile(r)

AnalysisStep ==
  \/ SkipMissing
  \/ \E r \in Results : UploadFile(r)
  \/ AppendProcessed
  \/ LoopEnd
  \/ \E ok \in BOOLEAN : AgentRun(ok)

FairSpec == Spec /\ WF_vars(AnalysisStep) /\ WF_vars(StatusLeaves)

\* ================================================================= claims
AnalysisError == "An error occurred during analysis"
MissingWarning == "Video file no longer exists"
Outcomes ==
  {"Analysis Result", "No valid videos could be uploaded for analysis.",
   AnalysisError}
GuardWarnings ==
  {"Please enter a question or insight to analyze.", "No video(s) loaded yet."}

\* The URL entered in the text box of the selected option.
CurrentUrl ==
  CASE video_option = OptYouTube -> youtube_url
    [] video_option = OptPlaylist -> playlist_url
    [] video_option = OptDirect -> direct_url
    [] OTHER -> ""

ProcessedPaths == [i \in 1..Len(processed_videos) |-> processed_videos[i].path]
InProcessed(p) == \E i \in 1..Len(processed_videos) : processed_videos[i].path = p
AllWhite(q) == \A i \in 1..Len(q) : q[i] = " "
AnalysisEnded == pc = "idle" /\ idx >= 1

\* C1: a failure of a download call in a URL mode ends input handling with an
\* error message and video_paths empty; a failure of upload_file, get_file or
\* the agent run ends the analysis with the error message and no result
\* rendered; no failure of an external call escapes the script.
C1_FailuresCaught ==
  /\ ~escaped
  /\ dl.result = "raise" =>
       /\ video_paths = << >>
       /\ dl.call \in {"yt", "direct"} => "Download failed" \in ui
       /\ dl.call = "pl" => "Playlist download failed" \in ui
  /\ anFail # "none" =>
       /\ pc = "idle"
       /\ AnalysisError \in ui
       /\ "Analysis Result" \notin ui

\* C1 witness: the second video's poll raised after the first was processed.
C1_Witness ==
  /\ anFail = "get_file"
  /\ Len(processed_videos) = 1
  /\ AnalysisError \in ui

\* C2: in a URL mode, when the entered URL equals current_input, video_paths
\* is non-empty and (single-video modes) its first file exists, the input
\* handling of the run makes no download call and leaves video_paths and
\* current_input unchanged.
C2_CacheHit ==
  /\ pc = "input"
  /\ video_option # OptUpload
  /\ CurrentUrl # ""
  /\ CurrentUrl = current_input
  /\ video_paths # << >>
  /\ video_option \in {OptYouTube, OptDirect} => video_paths[1] \in fs

C3_ProcessedNotProcessing ==
  /\ \A i \in 1..Len(processed_videos) :
       processed_videos[i].state \in States \ {"PROCESSING"}
  /\ \A i \in 1..Len(agentVideos) :
       agentVideos[i].state \in States \ {"PROCESSING"}
  /\ agentCalls > 0 => agentVideos = processed_videos

\* C3 witness: two videos were polled and passed to the agent.
C3_Witness ==
  /\ agentCalls = 1
  /\ Len(agentVideos) = 2
  /\ polls > 0

\* C4: uploads are sequential: upload_file for the next path is called only
\* when no earlier upload is still being polled, at most one upload is being
\* polled at any time, and processed_videos keeps the order of video_paths.
C4_OnePolled ==
  /\ Cardinality(inflight) <= 1
  /\ inflight # {} => pc = "poll" /\ inflight = {idx}
  /\ ProcessedPaths = SelectSeq(video_paths, InProcessed)

C4_Sequential ==
  /\ []C4_OnePolled
  /\ [][Len(uploads') > Len(uploads) => inflight = {}]_vars

\* C4 witness: both videos of a two-video list were processed, the second
\* after polling.
C4_Witness ==
  /\ Len(video_paths) = 2
  /\ Len(processed_videos) = 2
  /\ processed_videos[1].path = video_paths[1]
  /\ processed_videos[2].path = video_paths[2]
  /\ polls > 0

\* C5 as stated: when the download or the upload of one playlist video fails,
\* the remaining videos are still stored in video_paths, uploaded and passed
\* to the agent.
C5_OneFailureDoesNotBlock ==
  /\ (dl.call = "pl" /\ dl.result = "raise") =>
       \A n \in dl.files : PlaylistFile(playlist_url, n) \in Range(video_paths)
  /\ (AnalysisEnded /\ anFail \in {"upload_file", "get_file"}
        /\ \E j \in 1..Len(video_paths) : j # idx /\ video_paths[j] \in fs) =>
       /\ agentCalls = 1
       /\ \A j \in 1..Len(video_paths) :
            (j # idx /\ video_paths[j] \in fs) =>
              \E i \in 1..Len(agentVideos) : agentVideos[i].path = video_paths[j]

\* C5 amended: only a missing file is skipped without blocking the others.
\* A raised playlist download empties video_paths, a raised upload_file or
\* get_file ends the analysis with the error and without calling the agent,
\* and a path whose file is missing is skipped with a warning while every
\* path before the loop position is either skipped or processed, so the
\* agent gets all videos that were not skipped.
C5_OnlyMissingFilesSkipped ==
  /\ (dl.call = "pl" /\ dl.result = "raise") => video_paths = << >>
  /\ anFail \in {"upload_file", "get_file"} =>
       (agentCalls = 0 /\ AnalysisError \in ui /\ "Analysis Result" \notin ui)
  /\ skipped # {} => MissingWarning \in ui
  /\ idx >= 1 =>
       \A i \in 1..Len(video_paths) :
         i < idx => (i \in skipped \/ InProcessed(video_paths[i]))
  /\ (pc = "agent" \/ agentCalls > 0) =>
       \A i \in 1..Len(video_paths) : i \in skipped \/ InProcessed(video_paths[i])

\* C5 witness: the first video was missing and the second reached the agent.
C5_Witness ==
  /\ agentCalls = 1
  /\ 1 \in skipped
  /\ Len(agentVideos) = 1
  /\ agentVideos[1].path = video_paths[2]

\* C6: no path is handed to the video player or to upload_file unless the
\* file exists at that moment, and a missing file is skipped with a warning
\* and not uploaded.
C6_PathsExistWhenUsed ==
  /\ \A s \in played : s.existed
  /\ \A i \in skipped :
       MissingWarning \in ui /\ video_paths[i] \notin Range(uploads)

\* C7: with every status eventually leaving PROCESSING and every call
\* returning or raising, a started analysis ends with exactly one of the
\* result, the 'No valid videos' error and the analysis error; the poll loop
\* is left while the status is PROCESSING only by an exception.
C7_ExactlyOneOutcome ==
  AnalysisEnded => Cardinality(ui \cap Outcomes) = 1

C7_AnalysisEnds ==
  /\ (pc = "loop") ~> (AnalysisEnded /\ C7_ExactlyOneOutcome)
  /\ []C7_ExactlyOneOutcome
  /\ [][(pc = "poll" /\ uploaded.state = "PROCESSING" /\ pc' # "poll") =>
          anFail' = "get_file"]_vars

\* C7 witness: an analysis ended with a result after polling as long as the
\* counter records.
C7_Witness ==
  /\ AnalysisEnded
  /\ polls = MaxPolls
  /\ "Analysis Result" \in ui

\* C8: when input handling ends with a non-empty video_paths, every path was
\* produced from the selected option's current input.
C8_PathsFromCurrentInput ==
  (pc = "buttons" /\ video_paths # << >>) =>
    \A p \in Range(video_paths) :
      /\ p.src = video_option
      /\ IF video_option = OptUpload
           THEN p.name = video_file.name /\ p.data = video_file.data
           ELSE p.name = CurrentUrl

\* C9: on an Analyze click the agent runs at most once and only with a
\* non-blank query, a non-empty video_paths and at least one polled upload; a
\* blank query or an empty video_paths gives a warning and no upload or
\* agent call.
C9_AgentOnlyOnValidInput ==
  /\ agentCalls <= 1
  /\ agentCalls = 1 =>
       /\ button = "analyze"
       /\ ~AllWhite(user_query)
       /\ video_paths # << >>
       /\ processed_videos # << >>
       /\ \A i \in 1..Len(agentVideos) : agentVideos[i].state # "PROCESSING"
  /\ uploads # << >> =>
       (button = "analyze" /\ ~AllWhite(user_query) /\ video_paths # << >>)
  /\ (button = "analyze" /\ pc = "idle" /\ ~escaped
        /\ (AllWhite(user_query) \/ video_paths = << >>)) =>
       (ui \cap GuardWarnings # {} /\ uploads = << >> /\ agentCalls = 0)

\* C9 as stated: in addition, no step of a run started by an Analyze click
\* changes video_paths, current_input or last_uploaded_name.
C9_ClickNeverChangesSession ==
  /\ []C9_AgentOnlyOnValidInput
  /\ [][(button = "analyze" /\ pc # "idle") => UNCHANGED session]_vars

\* C9 amended: the Analyze handler (lines 222-257) never changes video_paths,
\* current_input or last_uploaded_name; the input handling that the same run
\* executes before it may download again and so change them.
C9_HandlerNeverChangesSession ==
  /\ []C9_AgentOnlyOnValidInput
  /\ [][(button = "analyze" /\ pc \notin {"idle", "input"}) =>
          UNCHANGED session]_vars

\* C9 witness: the run of an Analyze click downloaded the video again and
\* then called the agent.
C9_Witness ==
  /\ button = "analyze"
  /\ dl.result = "ok"
  /\ agentCalls = 1

\* C10: a Clear click empties video_paths and sets current_input and
\* last_uploaded_name to None, and from then until the user supplies a new
\* input video_paths stays empty and no download or file write takes place.
C10_ClearStartsOver ==
  cleared =>
    /\ video_paths = << >>
    /\ dl.call = "none"
    /\ ~wrote
    /\ pc = "input" => (current_input = NoneVal /\ last_uploaded_name = NoneVal)

====
